---- MODULE Spec2Model ----
(***************************************************************************)
(* Model of cell2sentence4longevity-mcp: the prompt builder, the age       *)
(* parser and the in-silico knockout engine of                             *)
(* src/src/cell2sentence4longevity_mcp/knockout.py (Spec, SpecParse,       *)
(* SpecSurgery for gene symbols that occur outside the sentence), the      *)
(* tools of server.py (SpecServer), the payload commands of cli.py         *)
(* (SpecCli) and the dataset filter of src/filter.py (SpecFilter).         *)
(*                                                                         *)
(* Text is a sequence of one-character strings.  An Optional value is a    *)
(* sequence of length 0 (None) or 1 (the value).  An age is an integer     *)
(* number of 1/AgeScale years, so that decimal literals are exact.         *)
(***************************************************************************)
EXTENDS Integers, Sequences, FiniteSets, TLC

\* ------------------------------------------------------------------ bounds

\* gene sentences: every text of up to MaxSentLen characters, and every
\* single-spaced sentence of up to MaxGenes genes
MaxSentLen == 3
MaxGenes == 3
\* completion texts: the numbers 7, 77, ... of up to MaxDigits digits (and "",
\* "." and "7.5")
MaxDigits == 1

\* longest free-form response text given to the age parser
MaxTextLen == 4

\* most rows of a table given to the dataset filter
MaxRows == 2

\* ------------------------------------------------------------- text literals

HEADER ==
    <<"T","h","e"," ","f","o","l","l","o","w","i","n","g"," ","i","s"," ","a"," ","l","i","s","t"," ","o","f"," ","a","g","i","n","g"," ","r","e","l","a","t","e","d"," ","g","e","n","e"," ","n","a","m","e","s"," ","o","r","d","e","r","e","d"," ","b","y"," ","d","e","s","c","e","n","d","i","n","g"," ","e","x","p","r","e","s","s","i","o","n"," ","l","e","v","e","l"," ","i","n"," ","a"," ","c","e","l","l",".","\n">>
SEX_LABEL ==
    <<"S","e","x",":"," ">>
SMOKING_LABEL ==
    <<"S","m","o","k","i","n","g"," ","s","t","a","t","u","s",":"," ">>
TISSUE_LABEL ==
    <<"T","i","s","s","u","e",":"," ">>
CELL_TYPE_LABEL ==
    <<"C","e","l","l"," ","t","y","p","e",":"," ">>
SENTENCE_LABEL ==
    <<"A","g","i","n","g"," ","r","e","l","a","t","e","d"," ","c","e","l","l"," ","s","e","n","t","e","n","c","e",":"," ">>
INSTRUCTION_1 ==
    <<"P","r","e","d","i","c","t"," ","t","h","e"," ","A","g","e"," ","o","f"," ","t","h","e"," ","d","o","n","o","r"," ","f","r","o","m"," ","w","h","o","m"," ","t","h","e","s","e"," ","c","e","l","l","s"," ","w","e","r","e"," ","t","a","k","e","n",".">>
INSTRUCTION_2 ==
    <<"A","n","s","w","e","r"," ","o","n","l","y"," ","w","i","t","h"," ","a","g","e"," ","v","a","l","u","e"," ","i","n"," ","y","e","a","r","s",":">>
WARNING_PREFIX ==
    <<"W","a","r","n","i","n","g",":"," ","G","e","n","e"," ","'">>
WARNING_SUFFIX ==
    <<"'"," ","n","o","t"," ","f","o","u","n","d"," ","i","n"," ","t","h","e"," ","g","e","n","e"," ","s","e","n","t","e","n","c","e">>
EMPTY_SENTENCE_MESSAGE ==
    <<"G","e","n","e"," ","s","e","n","t","e","n","c","e"," ","i","s"," ","e","m","p","t","y">>
PARSE_ERROR_PREFIX ==
    <<"C","o","u","l","d"," ","n","o","t"," ","e","x","t","r","a","c","t"," ","a","g","e"," ","f","r","o","m"," ","r","e","s","p","o","n","s","e",":"," ">>

\* ------------------------------------------------------------ Python values

None == <<>>
Some(x) == <<x>>

\* Python truthiness of an Optional[str]: neither None nor the empty string
Truthy(o) == o # None /\ Len(o[1]) > 0

\* characters Python's str.split(), str.strip() and the regex class \s treat
\* as whitespace (those of the model's alphabet)
Whitespace == {" ", "\t", "\n", "\r"}

\* characters the regex class \d matches, with their values
DigitValue ==
    [c \in {"0","1","2","3","4","5","6","7","8","9"} |->
        CASE c = "0" -> 0 [] c = "1" -> 1 [] c = "2" -> 2 [] c = "3" -> 3
          [] c = "4" -> 4 [] c = "5" -> 5 [] c = "6" -> 6 [] c = "7" -> 7
          [] c = "8" -> 8 [] c = "9" -> 9]
Digits == DOMAIN DigitValue
DigitChar == <<"0","1","2","3","4","5","6","7","8","9">>

\* ------------------------------------------------------- string operations

\* str.split() with no argument: the maximal runs of non-whitespace
RECURSIVE splitFrom(_, _, _)
splitFrom(s, i, cur) ==
    IF i > Len(s)
    THEN IF Len(cur) = 0 THEN <<>> ELSE <<cur>>
    ELSE IF s[i] \in Whitespace
         THEN IF Len(cur) = 0
              THEN splitFrom(s, i + 1, <<>>)
              ELSE <<cur>> \o splitFrom(s, i + 1, <<>>)
         ELSE splitFrom(s, i + 1, Append(cur, s[i]))
split(s) == splitFrom(s, 1, <<>>)

\* polars str.split(by) for a one-character separator: the pieces between
\* the separators, empty pieces included
RECURSIVE str_split(_, _)
str_split(s, by) ==
    LET seps == {i \in 1..Len(s) : s[i] = by}
    IN  IF seps = {} THEN <<s>>
        ELSE LET i == CHOOSE x \in seps : \A y \in seps : x <= y
             IN  <<SubSeq(s, 1, i - 1)>> \o str_split(SubSeq(s, i + 1, Len(s)), by)

\* sep.join(parts)
RECURSIVE join(_, _)
join(sep, parts) ==
    IF Len(parts) = 0 THEN <<>>
    ELSE IF Len(parts) = 1 THEN parts[1]
    ELSE parts[1] \o sep \o join(sep, Tail(parts))

\* the characters of a sequence of Optional characters, in order
compact(marked) ==
    LET kept == SelectSeq(marked, LAMBDA x : Len(x) > 0)
    IN  [k \in 1..Len(kept) |-> kept[k][1]]

\* old occurs in s at position i
occurs_at(s, old, i) ==
    /\ i >= 1
    /\ i + Len(old) - 1 <= Len(s)
    /\ \A k \in 1..Len(old) : s[i + k - 1] = old[k]

\* str.replace scans left to right and, after a replacement, resumes behind
\* it: the occurrence at i is replaced unless a replaced one overlaps it
RECURSIVE replaced_at(_, _, _)
replaced_at(s, old, i) ==
    /\ occurs_at(s, old, i)
    /\ \A j \in (i - Len(old) + 1)..(i - 1) : ~replaced_at(s, old, j)

\* s.replace(old, new) for a non-empty old and a new of at most one
\* character (" " and "" are the only replacements the code makes)
replace(s, old, new) ==
    LET starts == {i \in 1..Len(s) : replaced_at(s, old, i)}
        marked == [i \in 1..Len(s) |->
                     IF i \in starts THEN new
                     ELSE IF \E j \in starts : j < i /\ i < j + Len(old) THEN <<>>
                     ELSE <<s[i]>>]
    IN  IF starts = {} THEN s ELSE compact(marked)

\* a clean-up of runs of spaces only (r' +')
collapse_spaces_only(s) ==
    LET marked == [i \in 1..Len(s) |->
                     IF s[i] # " " THEN <<s[i]>>
                     ELSE IF i > 1 /\ s[i - 1] = " " THEN <<>>
                     ELSE <<" ">>]
    IN  compact(marked)

\* re.sub(r'\s+', ' ', s): every maximal run of whitespace becomes one space
collapse_whitespace(s) ==
    LET marked == [i \in 1..Len(s) |->
                     IF s[i] \notin Whitespace THEN <<s[i]>>
                     ELSE IF i > 1 /\ s[i - 1] \in Whitespace THEN <<>>
                     ELSE <<" ">>]
    IN  compact(marked)

\* s.strip()
strip(s) ==
    LET keep == {i \in 1..Len(s) : s[i] \notin Whitespace}
    IN  IF keep = {} THEN <<>>
        ELSE LET lo == CHOOSE i \in keep : \A j \in keep : i <= j
                 hi == CHOOSE i \in keep : \A j \in keep : j <= i
             IN  SubSeq(s, lo, hi)

\* f"{n}" for an int
RECURSIVE natToText(_)
natToText(n) ==
    IF n < 10 THEN <<DigitChar[n + 1]>>
    ELSE Append(natToText(n \div 10), DigitChar[(n % 10) + 1])
intToText(n) == IF n < 0 THEN <<"-">> \o natToText(-n) ELSE natToText(n)

\* ------------------------------------------------------------- age parser

RECURSIVE pow10(_)
pow10(k) == IF k <= 0 THEN 1 ELSE 10 * pow10(k - 1)

\* ages are counted in units of 1/AgeScale years
AgeScale == pow10(MaxDigits + 2)

\* the end of the maximal run of digits that starts at i (i - 1 when none)
RECURSIVE digitsEnd(_, _)
digitsEnd(s, i) ==
    IF i <= Len(s) /\ s[i] \in Digits THEN digitsEnd(s, i + 1) ELSE i - 1

\* value of the digit string s[lo..hi] read as an integer
RECURSIVE digitsValue(_, _, _)
digitsValue(s, lo, hi) ==
    IF hi < lo THEN 0
    ELSE 10 * digitsValue(s, lo, hi - 1) + DigitValue[s[hi]]

\* a match of r'\d+' only: the fraction is never part of the number
first_number_integer_only(raw) ==
    LET starts == {i \in 1..Len(raw) : raw[i] \in Digits}
    IN  IF starts = {} THEN None
        ELSE LET lo == CHOOSE i \in starts : \A j \in starts : i <= j
                 ie == digitsEnd(raw, lo)
             IN  Some([lo |-> lo, int_end |-> ie, hi |-> ie])

\* re.findall(r'\d+\.?\d*', raw)[0] as [lo, int_end, hi]: the integer part
\* is raw[lo..int_end], the fraction raw[int_end+2..hi] (empty when no "."
\* follows the integer part); None when the text has no digit
first_number(raw) ==
    LET starts == {i \in 1..Len(raw) : raw[i] \in Digits}
    IN  IF starts = {} THEN None
        ELSE LET lo == CHOOSE i \in starts : \A j \in starts : i <= j
                 ie == digitsEnd(raw, lo)
             IN  IF ie + 1 <= Len(raw) /\ raw[ie + 1] = "."
                 THEN Some([lo |-> lo, int_end |-> ie, hi |-> digitsEnd(raw, ie + 2)])
                 ELSE Some([lo |-> lo, int_end |-> ie, hi |-> ie])

\* a conversion that honours a minus sign in front of the digits
float_of_signed(raw, m) ==
    LET fracLo == m.int_end + 2
        fracLen == IF m.hi >= fracLo THEN m.hi - fracLo + 1 ELSE 0
        magnitude == digitsValue(raw, m.lo, m.int_end) * AgeScale
                     + (digitsValue(raw, fracLo, m.hi) * AgeScale) \div pow10(fracLen)
    IN  IF m.lo > 1 /\ raw[m.lo - 1] = "-" THEN 0 - magnitude ELSE magnitude

\* float(numbers[0]), in units of 1/AgeScale
float_of(raw, m) ==
    LET fracLo == m.int_end + 2
        fracLen == IF m.hi >= fracLo THEN m.hi - fracLo + 1 ELSE 0
    IN  digitsValue(raw, m.lo, m.int_end) * AgeScale
        + (digitsValue(raw, fracLo, m.hi) * AgeScale) \div pow10(fracLen)

\* a parse that falls back to 0 when the text has no number
parse_age_default_zero(raw) ==
    LET numbers == first_number(raw)
    IN  IF numbers = None THEN Some(0) ELSE Some(float_of(raw, numbers[1]))

\* knockout.py's parse: None stands for the ValueError it raises
parse_age(raw) ==
    LET numbers == first_number(raw)
    IN  IF numbers = None THEN None ELSE Some(float_of(raw, numbers[1]))

\* ---------------------------------------------------------- prompt builder

\* a surgery that removes the gene only where a space follows it
remove_gene_before_space_only(prompt, gene) ==
    LET p1 == replace(prompt, <<" ">> \o gene \o <<" ">>, <<" ">>)
        p3 == replace(p1, gene \o <<" ">>, <<>>)
    IN  collapse_whitespace(p3)

\* the prompt predict_age_from_sentence posts
remove_gene(prompt, gene) ==
    LET p1 == replace(prompt, <<" ">> \o gene \o <<" ">>, <<" ">>)
        p2 == replace(p1, <<" ">> \o gene, <<>>)
        p3 == replace(p2, gene \o <<" ">>, <<>>)
    IN  collapse_whitespace(p3)

\* prompt_parts that tests smoking_status by truthiness, like the texts
prompt_parts_smoking_truthy(gene_sentence, sex, smoking_status, tissue, cell_type) ==
    <<HEADER>>
    \o (IF Truthy(sex) THEN <<SEX_LABEL \o sex[1]>> ELSE <<>>)
    \o (IF smoking_status # None /\ smoking_status[1] # 0
        THEN <<SMOKING_LABEL \o intToText(smoking_status[1])>> ELSE <<>>)
    \o (IF Truthy(tissue) THEN <<TISSUE_LABEL \o tissue[1]>> ELSE <<>>)
    \o (IF Truthy(cell_type) THEN <<CELL_TYPE_LABEL \o cell_type[1]>> ELSE <<>>)
    \o <<SENTENCE_LABEL \o gene_sentence, INSTRUCTION_1, INSTRUCTION_2>>

prompt_parts(gene_sentence, sex, smoking_status, tissue, cell_type) ==
    <<HEADER>>
    \o (IF Truthy(sex) THEN <<SEX_LABEL \o sex[1]>> ELSE <<>>)
    \o (IF smoking_status # None
        THEN <<SMOKING_LABEL \o intToText(smoking_status[1])>> ELSE <<>>)
    \o (IF Truthy(tissue) THEN <<TISSUE_LABEL \o tissue[1]>> ELSE <<>>)
    \o (IF Truthy(cell_type) THEN <<CELL_TYPE_LABEL \o cell_type[1]>> ELSE <<>>)
    \o <<SENTENCE_LABEL \o gene_sentence, INSTRUCTION_1, INSTRUCTION_2>>

\* a builder that takes the gene out of the gene sentence only, before the
\* prompt is assembled
build_prompt_sentence_only(gene_sentence, sex, smoking_status, tissue, cell_type, gene_to_remove) ==
    LET kept == IF Truthy(gene_to_remove)
                THEN join(<<" ">>, SelectSeq(split(gene_sentence),
                                             LAMBDA g : g # gene_to_remove[1]))
                ELSE gene_sentence
    IN  collapse_whitespace(
            join(<<"\n">>, prompt_parts(kept, sex, smoking_status, tissue, cell_type)))

\* a builder that runs the removal for every gene_to_remove that is not None,
\* the empty text included
build_prompt_always_removes(gene_sentence, sex, smoking_status, tissue, cell_type, gene_to_remove) ==
    LET prompt == join(<<"\n">>,
                       prompt_parts(gene_sentence, sex, smoking_status, tissue, cell_type))
    IN  IF gene_to_remove # None THEN remove_gene(prompt, gene_to_remove[1])
        ELSE prompt

build_prompt(gene_sentence, sex, smoking_status, tissue, cell_type, gene_to_remove) ==
    LET prompt == join(<<"\n">>,
                       prompt_parts(gene_sentence, sex, smoking_status, tissue, cell_type))
    IN  IF Truthy(gene_to_remove) THEN remove_gene(prompt, gene_to_remove[1])
        ELSE prompt

\* --------------------------------------------------------- knockout engine

\* a sentence cut at every single space and nowhere else
genes_of_single_space(gene_sentence) == str_split(gene_sentence, " ")

\* genes = gene_sentence.split()
genes_of(gene_sentence) == split(gene_sentence)

\* presence tested on the text of each gene instead of on whole genes
gene_found_substring(symbol, genes) ==
    \E i \in 1..Len(genes) : \E k \in 1..Len(genes[i]) : occurs_at(genes[i], symbol, k)

gene_found(gene_symbol, genes) == \E i \in 1..Len(genes) : genes[i] = gene_symbol

warning_for(gene_symbol, genes) ==
    IF ~gene_found(gene_symbol, genes)
    THEN Some(WARNING_PREFIX \o gene_symbol \o WARNING_SUFFIX)
    ELSE None

\* a filter that also drops every gene the symbol is a prefix of
knockout_genes_of_by_prefix(symbol, genes) ==
    SelectSeq(genes, LAMBDA g : ~occurs_at(g, symbol, 1))

\* a filter that drops the first occurrence only (list.remove)
knockout_genes_of_first_only(symbol, genes) ==
    LET hits == {i \in 1..Len(genes) : genes[i] = symbol}
    IN  IF hits = {} THEN genes
        ELSE LET first == CHOOSE i \in hits : \A j \in hits : i <= j
             IN  SubSeq(genes, 1, first - 1) \o SubSeq(genes, first + 1, Len(genes))

knockout_genes_of(gene_symbol, genes) ==
    SelectSeq(genes, LAMBDA g : g # gene_symbol)

\* a knockout sentence cut out of the text of the rejoined sentence
knockout_sentence_of_text(symbol, genes) ==
    IF Len(symbol) = 0 THEN join(<<" ">>, genes)
    ELSE strip(collapse_whitespace(replace(join(<<" ">>, genes), symbol, <<>>)))

\* a knockout sentence whose genes are joined by tabs
knockout_sentence_of_tab_joined(symbol, genes) ==
    join(<<"\t">>, knockout_genes_of(symbol, genes))

knockout_sentence_of(gene_symbol, genes) ==
    join(<<" ">>, knockout_genes_of(gene_symbol, genes))

\* the delta taken the other way round
delta_of_swapped(age_knockout, age_orig) == age_orig - age_knockout

delta_of(age_knockout, age_orig) == age_knockout - age_orig

KnockoutResult(gene_symbol, gene_sentence, age_orig, age_ko, mdl) ==
    [gene_knocked_out |-> gene_symbol,
     age_prediction |-> age_orig,
     age_prediction_with_knockout |-> age_ko,
     delta_age |-> delta_of(age_ko, age_orig),
     original_gene_sentence |-> gene_sentence,
     knockout_gene_sentence |-> knockout_sentence_of(gene_symbol, genes_of(gene_sentence)),
     model |-> mdl,
     warning |-> warning_for(gene_symbol, genes_of(gene_sentence))]

\* ------------------------------------------------------------------ inputs

RECURSIVE TextsUpTo(_, _)
TextsUpTo(alphabet, n) ==
    IF n = 0 THEN {<<>>}
    ELSE LET shorter == TextsUpTo(alphabet, n - 1)
         IN  shorter \cup {Append(t, c) : t \in shorter, c \in alphabet}

SentenceChars == {"A", "B", " "}
GeneTokens == {<<"A">>, <<"B">>, <<"A", "B">>}
GeneSentences ==
    TextsUpTo(SentenceChars, MaxSentLen)
    \cup {join(<<" ">>, genes) : genes \in TextsUpTo(GeneTokens, MaxGenes)}
GeneSymbols == {<<>>, <<"A">>, <<"B">>, <<"A", "B">>}

\* the metadata a caller passes: nothing, falsy values, everything
MetadataCases ==
    {[sex |-> None, smoking_status |-> None, tissue |-> None, cell_type |-> None],
     [sex |-> Some(<<"F">>), smoking_status |-> Some(0),
      tissue |-> Some(<<"A">>), cell_type |-> Some(<<"B", " ", "T">>)]}

\* what the endpoint does with one request: the transport fails, the status
\* is not 2xx, the body is not the expected JSON, or choices[0].text is a text
ResponseTexts ==
    TextsUpTo({"7"}, MaxDigits) \cup {<<".">>, <<"7", ".", "5">>}
FailureKinds == {"ConnectionError", "Timeout", "HTTPError", "MalformedResponse"}
Outcomes ==
    {[kind |-> k, text |-> <<>>] : k \in FailureKinds}
    \cup {[kind |-> "ok", text |-> t] : t \in ResponseTexts}

VLLM_BASE_URL == "http://89.169.110.141:8000"
DEFAULT_MODEL == "transhumanist-already-exists/C2S-Scale-Gemma-2-27B-age-prediction-fullft"

\* ------------------------------------------------------------------- state

VARIABLES
    pc,             \* where the one call in progress stands
    gene_symbol,    \* its arguments
    gene_sentence,
    metadata,
    requests,       \* the prompts posted to the endpoint by this call, in order
    responses,      \* what the endpoint did with each of them, in order
    age_original,   \* Optional: the age parsed from the first response
    result,         \* Optional: the KnockoutResult returned
    error,          \* Optional: the exception raised to the caller
    vllm_base_url,  \* Cell2SentenceMCP's configuration
    model,
    call,           \* Optional: the tool or command that was invoked, as invoked
    df,             \* Optional: the table of cell sentences the filter reads
    gene_symbols,   \* the reference set the filter was given
    filtered_df     \* Optional: the table the filter wrote

vars == <<pc, gene_symbol, gene_sentence, metadata, requests, responses,
          age_original, result, error, vllm_base_url, model,
          call, df, gene_symbols, filtered_df>>

\* what the knockout engine never touches
outside_engine == <<call, df, gene_symbols, filtered_df>>

Init ==
    /\ pc = "idle"
    /\ gene_symbol = <<>>
    /\ gene_sentence = <<>>
    /\ metadata = [sex |-> None, smoking_status |-> None, tissue |-> None, cell_type |-> None]
    /\ requests = <<>>
    /\ responses = <<>>
    /\ age_original = None
    /\ result = None
    /\ error = None
    /\ vllm_base_url = VLLM_BASE_URL
    /\ model = DEFAULT_MODEL
    /\ call = None
    /\ df = None
    /\ gene_symbols = {}
    /\ filtered_df = None

\* a prediction that answers 0 instead of raising when no number is found
prediction_of_default_age(outcome) ==
    IF outcome.kind # "ok"
    THEN [age |-> None, error |-> Some([type |-> outcome.kind, message |-> <<>>])]
    ELSE LET predicted_age == parse_age(strip(outcome.text))
         IN  IF predicted_age = None
             THEN [age |-> Some(0), error |-> None]
             ELSE [age |-> predicted_age, error |-> None]

\* what predict_age_from_sentence makes of the endpoint's answer: the age,
\* or the exception it lets through
prediction_of(outcome) ==
    IF outcome.kind # "ok"
    THEN [age |-> None, error |-> Some([type |-> outcome.kind, message |-> <<>>])]
    ELSE LET raw_response == strip(outcome.text)
             predicted_age == parse_age(raw_response)
         IN  IF predicted_age = None
             THEN [age |-> None,
                   error |-> Some([type |-> "ValueError",
                                   message |-> PARSE_ERROR_PREFIX \o raw_response])]
             ELSE [age |-> predicted_age, error |-> None]

\* input checks that treat a gene that is not found as an error
check_input_rejects_missing(symbol, sentence) ==
    IF Len(genes_of(sentence)) = 0
    THEN Some([type |-> "ValueError", message |-> EMPTY_SENTENCE_MESSAGE])
    ELSE IF ~gene_found(symbol, genes_of(sentence))
    THEN Some([type |-> "ValueError",
               message |-> WARNING_PREFIX \o symbol \o WARNING_SUFFIX])
    ELSE None

\* input checks that reject only the empty string
check_input_empty_text_only(symbol, sentence) ==
    IF Len(sentence) = 0
    THEN Some([type |-> "ValueError", message |-> EMPTY_SENTENCE_MESSAGE])
    ELSE None

\* the checks insilico_knockout makes before its first prediction: the
\* exception raised, if any (a gene that is not found only sets the warning)
check_input(symbol, sentence) ==
    IF Len(genes_of(sentence)) = 0
    THEN Some([type |-> "ValueError", message |-> EMPTY_SENTENCE_MESSAGE])
    ELSE None

\* the prompt of the first prediction (gene_to_remove=None)
original_request(symbol, sentence, md) ==
    build_prompt(sentence, md.sex, md.smoking_status, md.tissue, md.cell_type, None)

\* a second prediction that forgets gene_to_remove
knockout_request_unmodified(symbol, sentence, md) ==
    build_prompt(sentence, md.sex, md.smoking_status, md.tissue, md.cell_type, None)

\* the prompt of the second prediction (gene_to_remove=gene_symbol)
knockout_request(symbol, sentence, md) ==
    build_prompt(sentence, md.sex, md.smoking_status, md.tissue, md.cell_type,
                 Some(symbol))

\* insilico_knockout up to its first request: the empty-sentence check, then
\* predict_age_from_sentence(gene_to_remove=None) up to requests.post
insilico_knockout_begin(symbol, sentence, md) ==
    /\ pc = "idle"
    /\ gene_symbol' = symbol
    /\ gene_sentence' = sentence
    /\ metadata' = md
    /\ IF check_input(symbol, sentence) # None
       THEN /\ pc' = "failed"
            /\ error' = check_input(symbol, sentence)
            /\ requests' = requests
       ELSE /\ pc' = "await_original"
            /\ error' = error
            /\ requests' = Append(requests, original_request(symbol, sentence, md))
    /\ UNCHANGED <<responses, age_original, result, vllm_base_url, model>>

\* insilico_knockout called directly
insilico_knockout(symbol, sentence, md) ==
    /\ insilico_knockout_begin(symbol, sentence, md)
    /\ UNCHANGED outside_engine

\* the first response arrives: predict_age_from_sentence parses it and
\* insilico_knockout posts the gene-removed prompt
receive_original(outcome) ==
    /\ pc = "await_original"
    /\ responses' = Append(responses, outcome)
    /\ LET p == prediction_of(outcome)
       IN  IF p.error # None
           THEN /\ pc' = "failed"
                /\ error' = p.error
                /\ UNCHANGED <<requests, age_original>>
           ELSE /\ pc' = "await_knockout"
                /\ age_original' = p.age
                /\ requests' = Append(requests,
                                      knockout_request(gene_symbol, gene_sentence, metadata))
                /\ error' = error
    /\ UNCHANGED <<gene_symbol, gene_sentence, metadata, result, vllm_base_url, model>>
    /\ UNCHANGED outside_engine

\* the second response arrives: the delta is computed and the result returned
receive_knockout(outcome) ==
    /\ pc = "await_knockout"
    /\ responses' = Append(responses, outcome)
    /\ LET p == prediction_of(outcome)
       IN  IF p.error # None
           THEN /\ pc' = "failed"
                /\ error' = p.error
                /\ result' = result
           ELSE /\ pc' = "returned"
                /\ result' = Some(KnockoutResult(gene_symbol, gene_sentence,
                                                 age_original[1], p.age[1], model))
                /\ error' = error
    /\ UNCHANGED <<gene_symbol, gene_sentence, metadata, requests, age_original,
                   vllm_base_url, model>>
    /\ UNCHANGED outside_engine

\* a service whose calls leave a mark on the instance: the configured model
\* is lost once a call has ended
next_call_forgets_model ==
    /\ pc \in {"returned", "failed"}
    /\ pc' = "idle"
    /\ gene_symbol' = <<>>
    /\ gene_sentence' = <<>>
    /\ metadata' = [sex |-> None, smoking_status |-> None, tissue |-> None, cell_type |-> None]
    /\ requests' = <<>>
    /\ responses' = <<>>
    /\ age_original' = None
    /\ result' = None
    /\ error' = None
    /\ call' = None
    /\ model' = <<>>
    /\ UNCHANGED <<vllm_base_url, df, gene_symbols, filtered_df>>

\* the caller has its result or its exception; the next call starts afresh
next_call ==
    /\ pc \in {"returned", "failed"}
    /\ pc' = "idle"
    /\ gene_symbol' = <<>>
    /\ gene_sentence' = <<>>
    /\ metadata' = [sex |-> None, smoking_status |-> None, tissue |-> None, cell_type |-> None]
    /\ requests' = <<>>
    /\ responses' = <<>>
    /\ age_original' = None
    /\ result' = None
    /\ error' = None
    /\ call' = None
    /\ UNCHANGED <<vllm_base_url, model, df, gene_symbols, filtered_df>>

Next ==
    \/ \E symbol \in GeneSymbols, sentence \in GeneSentences, md \in MetadataCases :
          insilico_knockout(symbol, sentence, md)
    \/ \E outcome \in Outcomes : receive_original(outcome)
    \/ \E outcome \in Outcomes : receive_knockout(outcome)
    \/ next_call

Spec == Init /\ [][Next]_vars

\* ----------------------------------------------- service tools (server.py)

\* predict_age's prompt: the text before and after {gene_sentence}
PREDICT_AGE_PROMPT_HEAD ==
    <<"T","h","e"," ","f","o","l","l","o","w","i","n","g"," ","i","s"," ","a"," ","l","i","s","t"," ","o","f"," ","a","g","i","n","g"," ","r","e","l","a","t","e","d"," ","g","e","n","e"," ","n","a","m","e","s"," ","o","r","d","e","r","e","d"," ","b","y"," ","d","e","s","c","e","n","d","i","n","g"," ","e","x","p","r","e","s","s","i","o","n"," ","l","e","v","e","l"," ","i","n"," ","a"," ","c","e","l","l",".","\n","\n","A","g","i","n","g"," ","r","e","l","a","t","e","d"," ","c","e","l","l"," ","s","e","n","t","e","n","c","e",":"," ">>
PREDICT_AGE_PROMPT_TAIL ==
    <<"\n","P","r","e","d","i","c","t"," ","t","h","e"," ","A","g","e"," ","o","f"," ","t","h","e"," ","d","o","n","o","r"," ","f","r","o","m"," ","w","h","o","m"," ","t","h","e","s","e"," ","c","e","l","l","s"," ","w","e","r","e"," ","t","a","k","e","n",".","\n","A","n","s","w","e","r"," ","o","n","l","y"," ","w","i","t","h"," ","a","g","e"," ","v","a","l","u","e"," ","i","n"," ","y","e","a","r","s",":">>

\* the literals of predict_age_with_metadata's prompt_parts
MCP_HEADER ==
    <<"T","h","e"," ","f","o","l","l","o","w","i","n","g"," ","i","s"," ","a"," ","l","i","s","t"," ","o","f"," ","a","g","i","n","g"," ","r","e","l","a","t","e","d"," ","g","e","n","e"," ","n","a","m","e","s"," ","o","r","d","e","r","e","d"," ","b","y"," ","d","e","s","c","e","n","d","i","n","g"," ","e","x","p","r","e","s","s","i","o","n"," ","l","e","v","e","l"," ","i","n"," ","a"," ","c","e","l","l",".","\n">>
MCP_SEX_LABEL ==
    <<"S","e","x",":"," ">>
MCP_SMOKING_LABEL ==
    <<"S","m","o","k","i","n","g"," ","s","t","a","t","u","s",":"," ">>
MCP_TISSUE_LABEL ==
    <<"T","i","s","s","u","e",":"," ">>
MCP_CELL_TYPE_LABEL ==
    <<"C","e","l","l"," ","t","y","p","e",":"," ">>
MCP_SENTENCE_LABEL ==
    <<"A","g","i","n","g"," ","r","e","l","a","t","e","d"," ","c","e","l","l"," ","s","e","n","t","e","n","c","e",":"," ">>
MCP_INSTRUCTION_1 ==
    <<"P","r","e","d","i","c","t"," ","t","h","e"," ","A","g","e"," ","o","f"," ","t","h","e"," ","d","o","n","o","r"," ","f","r","o","m"," ","w","h","o","m"," ","t","h","e","s","e"," ","c","e","l","l","s"," ","w","e","r","e"," ","t","a","k","e","n",".">>
MCP_INSTRUCTION_2 ==
    <<"A","n","s","w","e","r"," ","o","n","l","y"," ","w","i","t","h"," ","a","g","e"," ","v","a","l","u","e"," ","i","n"," ","y","e","a","r","s",":">>
PREDICTION_ERROR_PREFIX ==
    <<"E","r","r","o","r"," ","d","u","r","i","n","g"," ","a","g","e"," ","p","r","e","d","i","c","t","i","o","n",":"," ">>

\* a prompt whose instruction follows the sentence on the same line
predict_age_prompt_same_line(sentence) ==
    PREDICT_AGE_PROMPT_HEAD \o sentence \o <<" ">> \o Tail(PREDICT_AGE_PROMPT_TAIL)

predict_age_prompt(sentence) ==
    PREDICT_AGE_PROMPT_HEAD \o sentence \o PREDICT_AGE_PROMPT_TAIL

\* prompt_parts that appends the metadata lines in another order
metadata_prompt_parts_reordered(sentence, sex, smoking_status, tissue, cell_type) ==
    <<MCP_HEADER>>
    \o (IF Truthy(tissue) THEN <<MCP_TISSUE_LABEL \o tissue[1]>> ELSE <<>>)
    \o (IF Truthy(sex) THEN <<MCP_SEX_LABEL \o sex[1]>> ELSE <<>>)
    \o (IF smoking_status # None
        THEN <<MCP_SMOKING_LABEL \o intToText(smoking_status[1])>> ELSE <<>>)
    \o (IF Truthy(cell_type) THEN <<MCP_CELL_TYPE_LABEL \o cell_type[1]>> ELSE <<>>)
    \o <<MCP_SENTENCE_LABEL \o sentence, MCP_INSTRUCTION_1, MCP_INSTRUCTION_2>>

\* predict_age_with_metadata's prompt_parts
metadata_prompt_parts(sentence, sex, smoking_status, tissue, cell_type) ==
    <<MCP_HEADER>>
    \o (IF Truthy(sex) THEN <<MCP_SEX_LABEL \o sex[1]>> ELSE <<>>)
    \o (IF smoking_status # None
        THEN <<MCP_SMOKING_LABEL \o intToText(smoking_status[1])>> ELSE <<>>)
    \o (IF Truthy(tissue) THEN <<MCP_TISSUE_LABEL \o tissue[1]>> ELSE <<>>)
    \o (IF Truthy(cell_type) THEN <<MCP_CELL_TYPE_LABEL \o cell_type[1]>> ELSE <<>>)
    \o <<MCP_SENTENCE_LABEL \o sentence, MCP_INSTRUCTION_1, MCP_INSTRUCTION_2>>

predict_age_with_metadata_prompt(sentence, md) ==
    join(<<"\n">>, metadata_prompt_parts(sentence, md.sex, md.smoking_status,
                                         md.tissue, md.cell_type))

AgePredictionResult(predicted_age, raw_response, prompt_used, mdl) ==
    [predicted_age |-> predicted_age,
     raw_response |-> raw_response,
     prompt_used |-> prompt_used,
     model |-> mdl]

\* a standalone answer that is strict like the knockout path
standalone_answer_strict(outcome, prompt, mdl) ==
    IF outcome.kind # "ok" \/ parse_age(strip(outcome.text)) = None
    THEN [result |-> None,
          error |-> Some([type |-> "ValueError", message |-> PREDICTION_ERROR_PREFIX])]
    ELSE [result |-> Some(AgePredictionResult(parse_age(strip(outcome.text)),
                                              strip(outcome.text), prompt, mdl)),
          error |-> None]

\* what predict_age and predict_age_with_metadata make of the endpoint's
\* answer: every exception of the try block is re-raised as a ValueError
\* (its message ends with the text of the cause, which is the endpoint's);
\* a text without a number leaves predicted_age at None
standalone_answer(outcome, prompt, mdl) ==
    IF outcome.kind # "ok"
    THEN [result |-> None,
          error |-> Some([type |-> "ValueError", message |-> PREDICTION_ERROR_PREFIX])]
    ELSE LET raw_response == strip(outcome.text)
             numbers == first_number(raw_response)
             predicted_age == IF numbers # None
                              THEN Some(float_of(raw_response, numbers[1]))
                              ELSE None
         IN  [result |-> Some(AgePredictionResult(predicted_age, raw_response,
                                                  prompt, mdl)),
              error |-> None]

\* the metadata a caller of the service can pass: each field left out, falsy
\* or set
MetadataSpace ==
    [sex : {None, Some(<<>>), Some(<<"F">>)},
     smoking_status : {None, Some(0), Some(1)},
     tissue : {None, Some(<<>>), Some(<<"A">>)},
     cell_type : {None, Some(<<>>), Some(<<"B", " ", "T">>)}]

ToolSentences == {<<>>, <<" ">>, <<"A">>, <<"A", " ", "B">>, <<"B", " ", "A", " ", "B">>}

\* gene_symbol as the caller passes it: None when the argument is left out
ToolSymbols == {None, Some(<<"A">>), Some(<<"B">>)}

\* answers of the endpoint with text around the number, or without a number
ToolOutcomes ==
    Outcomes \cup {[kind |-> "ok", text |-> t] :
                      t \in {<<" ", "7", "\n">>, <<"y">>, <<" ", "y", " ">>,
                             <<"y", "7", ".", "5", "y">>, <<"-", "7">>}}

\* Cell2SentenceMCP.predict_age up to requests.post
predict_age(sentence) ==
    /\ pc = "idle"
    /\ call' = Some([tool |-> "predict_age", gene_symbol |-> None])
    /\ gene_sentence' = sentence
    /\ requests' = Append(requests, predict_age_prompt(sentence))
    /\ pc' = "await_prediction"
    /\ UNCHANGED <<gene_symbol, metadata, responses, age_original, result, error,
                   vllm_base_url, model, df, gene_symbols, filtered_df>>

\* Cell2SentenceMCP.predict_age_with_metadata up to requests.post
predict_age_with_metadata(sentence, md) ==
    /\ pc = "idle"
    /\ call' = Some([tool |-> "predict_age_with_metadata", gene_symbol |-> None])
    /\ gene_sentence' = sentence
    /\ metadata' = md
    /\ requests' = Append(requests, predict_age_with_metadata_prompt(sentence, md))
    /\ pc' = "await_prediction"
    /\ UNCHANGED <<gene_symbol, responses, age_original, result, error,
                   vllm_base_url, model, df, gene_symbols, filtered_df>>

\* the response of a standalone prediction arrives
receive_prediction(outcome) ==
    /\ pc = "await_prediction"
    /\ responses' = Append(responses, outcome)
    /\ LET answer == standalone_answer(outcome, requests[1], model)
       IN  /\ result' = answer.result
           /\ error' = answer.error
           /\ pc' = IF answer.error # None THEN "failed" ELSE "returned"
    /\ UNCHANGED <<gene_symbol, gene_sentence, metadata, requests, age_original,
                   vllm_base_url, model, call, df, gene_symbols, filtered_df>>

\* Cell2SentenceMCP.insilico_knockout_tool: gene_symbol is a parameter without
\* a default, so a call that leaves it out is rejected when the arguments are
\* bound; otherwise the tool is insilico_knockout with the service's
\* configuration
insilico_knockout_tool(symbol, sentence, md) ==
    /\ pc = "idle"
    /\ call' = Some([tool |-> "insilico_knockout_tool", gene_symbol |-> symbol])
    /\ IF symbol = None
       THEN /\ pc' = "failed"
            /\ error' = Some([type |-> "TypeError", message |-> <<>>])
            /\ gene_sentence' = sentence
            /\ metadata' = md
            /\ UNCHANGED <<gene_symbol, requests, responses, age_original, result,
                           vllm_base_url, model>>
       ELSE insilico_knockout_begin(symbol[1], sentence, md)
    /\ UNCHANGED <<df, gene_symbols, filtered_df>>

NextServer ==
    \/ \E sentence \in ToolSentences : predict_age(sentence)
    \/ \E sentence \in ToolSentences, md \in MetadataSpace :
          predict_age_with_metadata(sentence, md)
    \/ \E outcome \in ToolOutcomes : receive_prediction(outcome)
    \/ \E symbol \in ToolSymbols, sentence \in ToolSentences, md \in MetadataCases :
          insilico_knockout_tool(symbol, sentence, md)
    \/ \E outcome \in ToolOutcomes : receive_original(outcome)
    \/ \E outcome \in ToolOutcomes : receive_knockout(outcome)
    \/ next_call

SpecServer == Init /\ [][NextServer]_vars

\* ------------------------------------------- the age parser on any response

\* the characters of a response: digits, the decimal point, a sign, a letter
\* and a space
ParseChars == {"4", "2", ".", "-", "y", " "}
ParseTexts ==
    TextsUpTo(ParseChars, MaxTextLen)
    \cup {<<"A","g","e",":"," ","4","2",".","5"," ","y","e","a","r","s">>, <<"7">>}
ParseOutcomes == {[kind |-> "ok", text |-> t] : t \in ParseTexts}

\* one knockout call whose first answer is any text; the second answer is one
\* of the few of Outcomes
NextParse ==
    \/ insilico_knockout(<<"A">>, <<"A", " ", "B">>, CHOOSE md \in MetadataCases : md.sex = None)
    \/ \E outcome \in ParseOutcomes : receive_original(outcome)
    \/ \E outcome \in Outcomes : receive_knockout(outcome)
    \/ next_call

SpecParse == Init /\ [][NextParse]_vars

\* ------------------------------------------------ command line (cli.py)

CLI_SEX_PREFIX ==
    <<"S","e","x",":">>
CLI_SMOKING_PREFIX ==
    <<"S","m","o","k","i","n","g"," ","s","t","a","t","u","s",":">>
CLI_TISSUE_PREFIX ==
    <<"T","i","s","s","u","e",":">>
CLI_CELL_TYPE_PREFIX ==
    <<"C","e","l","l"," ","t","y","p","e",":">>
CLI_SENTENCE_PREFIX ==
    <<"A","g","i","n","g"," ","r","e","l","a","t","e","d"," ","c","e","l","l"," ","s","e","n","t","e","n","c","e",":">>
NO_SENTENCE_MESSAGE ==
    <<"C","o","u","l","d"," ","n","o","t"," ","e","x","t","r","a","c","t"," ","g","e","n","e"," ","s","e","n","t","e","n","c","e"," ","f","r","o","m"," ","p","a","y","l","o","a","d"," ","p","r","o","m","p","t">>
EMPTY_GENES_MESSAGE ==
    <<"G","e","n","e"," ","s","e","n","t","e","n","c","e"," ","i","s"," ","e","m","p","t","y">>

\* prompt.split('\n')
RECURSIVE split_lines(_)
split_lines(s) ==
    LET seps == {i \in 1..Len(s) : s[i] = "\n"}
    IN  IF seps = {} THEN <<s>>
        ELSE LET i == CHOOSE x \in seps : \A y \in seps : x <= y
             IN  <<SubSeq(s, 1, i - 1)>> \o split_lines(SubSeq(s, i + 1, Len(s)))

startswith(line, prefix) ==
    Len(line) >= Len(prefix) /\ SubSeq(line, 1, Len(prefix)) = prefix

\* a value read after the last colon of the line
after_colon_last(line) ==
    LET colons == {i \in 1..Len(line) : line[i] = ":"}
        i == CHOOSE x \in colons : \A y \in colons : y <= x
    IN  strip(SubSeq(line, i + 1, Len(line)))

\* line.split(":", 1)[1].strip(), for a line that has a colon
after_colon(line) ==
    LET colons == {i \in 1..Len(line) : line[i] = ":"}
        i == CHOOSE x \in colons : \A y \in colons : x <= y
    IN  strip(SubSeq(line, i + 1, Len(line)))

\* int(text) for a stripped text: an optional sign and decimal digits; None
\* stands for the ValueError it raises
int_of(text) ==
    LET signed == text # <<>> /\ text[1] \in {"-", "+"}
        body == IF signed THEN Tail(text) ELSE text
    IN  IF body = <<>> \/ \E i \in 1..Len(body) : body[i] \notin Digits
        THEN None
        ELSE Some((IF signed /\ text[1] = "-" THEN -1 ELSE 1)
                  * digitsValue(body, 1, Len(body)))

\* which branch of the if/elif chain a stripped line takes (0: none)
branch_of(line) ==
    IF startswith(line, CLI_SEX_PREFIX) THEN 1
    ELSE IF startswith(line, CLI_SMOKING_PREFIX) THEN 2
    ELSE IF startswith(line, CLI_TISSUE_PREFIX) THEN 3
    ELSE IF startswith(line, CLI_CELL_TYPE_PREFIX) THEN 4
    ELSE IF startswith(line, CLI_SENTENCE_PREFIX) THEN 5
    ELSE 0

\* line.strip() for every line
RECURSIVE strip_each(_)
strip_each(lines) ==
    IF lines = <<>> THEN <<>>
    ELSE <<strip(Head(lines))>> \o strip_each(Tail(lines))

\* the loop over the stripped lines: each variable keeps the value of the
\* last line that assigned it; error is set when int() raises
parse_lines(stripped) ==
    LET branches == [i \in 1..Len(stripped) |-> branch_of(stripped[i])]
        hits(b) == {i \in 1..Len(stripped) : branches[i] = b}
        last(b) == CHOOSE i \in hits(b) : \A j \in hits(b) : j <= i
        text(b) == IF hits(b) = {} THEN None ELSE Some(after_colon(stripped[last(b)]))
    IN  [sex |-> text(1),
         smoking_status |-> IF hits(2) = {} THEN None
                            ELSE int_of(after_colon(stripped[last(2)])),
         tissue |-> text(3),
         cell_type |-> text(4),
         gene_sentence |-> IF hits(5) = {} THEN <<>> ELSE after_colon(stripped[last(5)]),
         error |-> IF \E i \in hits(2) : int_of(after_colon(stripped[i])) = None
                   THEN Some([type |-> "ValueError", message |-> <<>>])
                   ELSE None]

\* the payload parser of knockout_from_payload and ko
parse_payload(prompt) == parse_lines(strip_each(split_lines(prompt)))

\* the values the prompts of the payload files are built from
PayloadSentences ==
    {<<"A">>, <<"A", " ", "B">>, <<"B", " ", "A", " ", "B">>,
     <<"T","i","s","s","u","e",":"," ","x">>}
PayloadMetadata ==
    [sex : {None, Some(<<>>), Some(<<"F">>), Some(<<"a", ":", "b">>)},
     smoking_status : {None, Some(0), Some(1)},
     tissue : {None, Some(<<"S","e","x",":"," ","M">>)},
     cell_type : {None, Some(<<"B", " ", "T">>)}]

\* payload prompts written by the prompt builder, with what they were built from
BuiltPayloads ==
    {[prompt |-> build_prompt(s, md.sex, md.smoking_status, md.tissue,
                              md.cell_type, None),
      gene_sentence |-> s,
      metadata |-> md] : s \in PayloadSentences, md \in PayloadMetadata}

\* other payload prompts: no prompt, no sentence line, an empty sentence, a
\* smoking status that is not a number, indented lines
OtherPayloadPrompts ==
    {<<>>,
     HEADER,
     HEADER \o <<"\n">> \o SENTENCE_LABEL,
     SMOKING_LABEL \o <<"x", "\n">> \o SENTENCE_LABEL \o <<"A">>,
     <<" ">> \o SEX_LABEL \o <<"F", " ", "\n", " ">> \o SENTENCE_LABEL \o <<" ", "B", " ", "A">>}

PayloadPrompts == {b.prompt : b \in BuiltPayloads} \cup OtherPayloadPrompts

\* --gene-symbol: None when the option is not given
OptionSymbols == {None, Some(<<>>), Some(<<"A">>), Some(<<"B">>)}

\* a default that takes the last gene of the sentence
gene_symbol_or_last(symbol, sentence) ==
    IF symbol = None THEN split(sentence)[Len(split(sentence))] ELSE symbol[1]

\* gene_symbol when --gene-symbol is given, else the first gene of a sentence
\* that has one
gene_symbol_or_first(symbol, sentence) ==
    IF symbol = None THEN split(sentence)[1] ELSE symbol[1]

\* the command up to the first request of insilico_knockout: the payload is
\* parsed, the gene defaults to the first one, and the engine is called; a
\* payload without a sentence, or with a smoking status int() rejects, ends
\* the command before that
knockout_from_payload(prompt, symbol) ==
    /\ pc = "idle"
    /\ call' = Some([tool |-> "knockout_from_payload", gene_symbol |-> symbol,
                     prompt |-> prompt])
    /\ \E parsed \in {parse_payload(prompt)} :
       LET failure ==
               IF parsed.error # None THEN parsed.error
               ELSE IF parsed.gene_sentence = <<>>
               THEN Some([type |-> "ValueError", message |-> NO_SENTENCE_MESSAGE])
               ELSE IF symbol = None /\ split(parsed.gene_sentence) = <<>>
               THEN Some([type |-> "ValueError", message |-> EMPTY_GENES_MESSAGE])
               ELSE None
       IN  IF failure # None
           THEN /\ pc' = "failed"
                /\ error' = failure
                /\ UNCHANGED <<gene_symbol, gene_sentence, metadata, requests, responses,
                               age_original, result, vllm_base_url, model>>
           ELSE insilico_knockout_begin(
                    gene_symbol_or_first(symbol, parsed.gene_sentence),
                    parsed.gene_sentence,
                    [sex |-> parsed.sex, smoking_status |-> parsed.smoking_status,
                     tissue |-> parsed.tissue, cell_type |-> parsed.cell_type])
    /\ UNCHANGED <<df, gene_symbols, filtered_df>>

\* the ko command: the gene symbol is a required argument; a payload without
\* a sentence makes the command exit with code 1
ko_short(symbol, prompt) ==
    /\ pc = "idle"
    /\ call' = Some([tool |-> "ko", gene_symbol |-> Some(symbol), prompt |-> prompt])
    /\ \E parsed \in {parse_payload(prompt)} :
       LET failure ==
               IF parsed.error # None THEN parsed.error
               ELSE IF parsed.gene_sentence = <<>>
               THEN Some([type |-> "Exit", message |-> NO_SENTENCE_MESSAGE])
               ELSE None
       IN  IF failure # None
           THEN /\ pc' = "failed"
                /\ error' = failure
                /\ UNCHANGED <<gene_symbol, gene_sentence, metadata, requests, responses,
                               age_original, result, vllm_base_url, model>>
           ELSE insilico_knockout_begin(
                    symbol, parsed.gene_sentence,
                    [sex |-> parsed.sex, smoking_status |-> parsed.smoking_status,
                     tissue |-> parsed.tissue, cell_type |-> parsed.cell_type])
    /\ UNCHANGED <<df, gene_symbols, filtered_df>>

\* what the endpoint does with a request of the command: a timeout or a text
CliOutcomes == {o \in Outcomes : o.kind \in {"ok", "Timeout"}}

NextCli ==
    \/ \E prompt \in PayloadPrompts, symbol \in OptionSymbols :
          knockout_from_payload(prompt, symbol)
    \/ \E prompt \in PayloadPrompts : ko_short(<<"B">>, prompt)
    \/ \E outcome \in CliOutcomes : receive_original(outcome)
    \/ \E outcome \in CliOutcomes : receive_knockout(outcome)
    \/ next_call

SpecCli == Init /\ [][NextCli]_vars

\* --------------------------------------------- dataset filter (src/filter.py)

\* polars list.first()
list_first(l) == l[1]

\* the filter's predicate on one cell_sentence
first_gene_is_in(cell_sentence, symbols) ==
    list_first(str_split(cell_sentence, " ")) \in symbols

\* cell sentences of a table: well-formed ones, an empty one, one that
\* starts with a space and one whose genes are separated by a tab
CellSentences ==
    {<<>>, <<"A">>, <<"A", " ", "B">>, <<"B", " ", "A">>, <<"A", "B">>,
     <<" ", "A", " ", "B">>, <<"A", "\t", "B">>}
CellTables == TextsUpTo(CellSentences, MaxRows)
ReferenceSets == {{}, {<<"A">>}, {<<"B">>}, {<<"A">>, <<"A", "B">>}}

\* filter_cells_by_gene_symbols: the table is read, filtered and written
filter_cells_by_gene_symbols(rows, symbols) ==
    /\ pc = "idle"
    /\ filtered_df = None
    /\ df' = Some(rows)
    /\ gene_symbols' = symbols
    /\ filtered_df' = Some(SelectSeq(rows, LAMBDA row : first_gene_is_in(row, symbols)))
    /\ UNCHANGED <<pc, gene_symbol, gene_sentence, metadata, requests, responses,
                   age_original, result, error, vllm_base_url, model, call>>

\* the script has ended; the next run starts afresh
next_run ==
    /\ filtered_df # None
    /\ df' = None
    /\ gene_symbols' = {}
    /\ filtered_df' = None
    /\ UNCHANGED <<pc, gene_symbol, gene_sentence, metadata, requests, responses,
                   age_original, result, error, vllm_base_url, model, call>>

NextFilter ==
    \/ \E rows \in CellTables, symbols \in ReferenceSets :
          filter_cells_by_gene_symbols(rows, symbols)
    \/ next_run

SpecFilter == Init /\ [][NextFilter]_vars

\* ------------------------------- the engine on words of the prompt itself

\* gene symbols that are also words of the prompt: the empty symbol, a gene
\* of the sentences, values of the metadata, words at the start, in the
\* middle and at the end of the fixed text
SurgerySymbols ==
    {<<>>, <<"B">>, <<"T">>, <<"F">>, <<"t","h","e">>, <<"T","h","e">>,
     <<"y","e","a","r","s",":">>}

\* gene sentences with single spaces, and with a tab, two spaces or a
\* leading space between or before the genes
SurgerySentences ==
    {<<"B">>, <<"A", " ", "B">>, <<"B", " ", "A", " ", "B">>,
     <<"A", "\t", "B">>, <<"A", " ", " ", "B">>, <<" ", "B", " ", "A">>}

NextSurgery ==
    \/ \E symbol \in SurgerySymbols, sentence \in SurgerySentences, md \in MetadataCases :
          insilico_knockout(symbol, sentence, md)
    \/ \E outcome \in CliOutcomes : receive_original(outcome)
    \/ \E outcome \in CliOutcomes : receive_knockout(outcome)
    \/ next_call

SpecSurgery == Init /\ [][NextSurgery]_vars

\* ------------------------------------------------- vocabulary of the claims

NOT_FOUND ==
    <<"n","o","t"," ","f","o","u","n","d">>

Contains(s, sub) == \E i \in 1..(Len(s) + 1) : occurs_at(s, sub, i) \/ Len(sub) = 0

\* the tokens of a text: its maximal runs of non-whitespace characters, in order
TokenStarts(s) ==
    {i \in 1..Len(s) : s[i] \notin Whitespace /\ (i = 1 \/ s[i - 1] \in Whitespace)}
TokenEnd(s, lo) ==
    CHOOSE hi \in lo..Len(s) :
        /\ \A k \in lo..hi : s[k] \notin Whitespace
        /\ hi = Len(s) \/ s[hi + 1] \in Whitespace
Tokens(s) ==
    LET starts == TokenStarts(s)
    IN  [k \in 1..Cardinality(starts) |->
           LET lo == CHOOSE i \in starts : Cardinality({j \in starts : j <= i}) = k
           IN  SubSeq(s, lo, TokenEnd(s, lo))]

Occurrences(g, toks) == {k \in 1..Len(toks) : toks[k] = g}

\* tokens joined by single spaces: no other whitespace, none at either end
SingleSpaced(s) ==
    \A i \in 1..Len(s) :
        s[i] \in Whitespace =>
            /\ s[i] = " "
            /\ i > 1 /\ i < Len(s)
            /\ s[i - 1] \notin Whitespace /\ s[i + 1] \notin Whitespace

HasDigit(text) == \E i \in 1..Len(text) : text[i] \in Digits

\* an inference call succeeds when the endpoint answers with a text that
\* holds a number
Succeeds(outcome) == outcome.kind = "ok" /\ HasDigit(outcome.text)

EmptySentenceError ==
    Some([type |-> "ValueError", message |-> EMPTY_SENTENCE_MESSAGE])

\* ------------------------------------------------------------------ claims

\* C1: in every returned KnockoutResult, delta_age is exactly
\* age_prediction_with_knockout minus age_prediction, age_prediction is the
\* age parsed from the response to the first (unmodified) request and
\* age_prediction_with_knockout the age parsed from the response to the second
\* (gene-removed) request.
C1_DeltaIsKnockoutMinusOriginal ==
    result # None =>
        LET r == result[1]
        IN  /\ r.delta_age = r.age_prediction_with_knockout - r.age_prediction
            /\ Some(r.age_prediction) = parse_age(strip(responses[1].text))
            /\ Some(r.age_prediction_with_knockout) = parse_age(strip(responses[2].text))

\* a result whose knockout age is lower than the original by a fractional
\* number of years
C1_Witness ==
    /\ result # None
    /\ result[1].delta_age < 0
    /\ result[1].delta_age % AgeScale # 0

\* C2: in every returned KnockoutResult, warning is None exactly when
\* gene_symbol is one of the tokens of gene_sentence; otherwise it is the text
\* "Warning: Gene '<gene_symbol>' not found in the gene sentence", which
\* contains "not found".
C2_WarningIffNotAToken ==
    result # None =>
        LET found == Occurrences(gene_symbol, Tokens(gene_sentence)) # {}
            warning == result[1].warning
        IN  /\ (warning = None) <=> found
            /\ ~found =>
                 /\ warning = Some(WARNING_PREFIX \o gene_symbol \o WARNING_SUFFIX)
                 /\ Contains(warning[1], NOT_FOUND)

\* a result with the warning although gene_symbol occurs inside a token
C2_Witness ==
    /\ result # None
    /\ result[1].warning # None
    /\ Len(gene_symbol) > 0
    /\ Contains(gene_sentence, gene_symbol)

\* C3: when gene_symbol is exactly one of the N tokens of the sentence, the
\* returned knockout_gene_sentence has N-1 tokens, none equal to gene_symbol,
\* which are the other tokens in their original order joined by single
\* spaces, and warning is None.
C3_SingleOccurrenceRemoved ==
    (result # None /\ Cardinality(Occurrences(gene_symbol, Tokens(gene_sentence))) = 1) =>
        LET toks == Tokens(gene_sentence)
            N == Len(toks)
            k == CHOOSE i \in Occurrences(gene_symbol, toks) : TRUE
            knocked == Tokens(result[1].knockout_gene_sentence)
        IN  /\ Len(knocked) = N - 1
            /\ \A i \in 1..Len(knocked) : knocked[i] # gene_symbol
            /\ knocked = SubSeq(toks, 1, k - 1) \o SubSeq(toks, k + 1, N)
            /\ SingleSpaced(result[1].knockout_gene_sentence)
            /\ result[1].warning = None

\* the middle one of three genes is knocked out
C3_Witness ==
    /\ result # None
    /\ Len(Tokens(gene_sentence)) = 3
    /\ Occurrences(gene_symbol, Tokens(gene_sentence)) = {2}

\* C4: whatever the number of occurrences of gene_symbol, no token of the
\* returned knockout_gene_sentence equals gene_symbol and every other token of
\* the sentence is kept once per occurrence, in order.
C4_EveryOccurrenceRemoved ==
    result # None =>
        LET toks == Tokens(gene_sentence)
            kept == (1..Len(toks)) \ Occurrences(gene_symbol, toks)
            nth(j) == CHOOSE i \in kept : Cardinality({h \in kept : h <= i}) = j
            knocked == Tokens(result[1].knockout_gene_sentence)
        IN  /\ \A i \in 1..Len(knocked) : knocked[i] # gene_symbol
            /\ Len(knocked) = Cardinality(kept)
            /\ \A j \in 1..Len(knocked) : knocked[j] = toks[nth(j)]

\* the gene occurs twice and another gene stays
C4_Witness ==
    /\ result # None
    /\ Cardinality(Occurrences(gene_symbol, Tokens(gene_sentence))) = 2
    /\ Len(Tokens(gene_sentence)) = 3

\* C5: when gene_symbol is none of the tokens, the returned
\* knockout_gene_sentence is all the tokens of the sentence, in order, joined
\* by single spaces, and the warning is present.
C5_NotFoundKeepsAllTokens ==
    (result # None /\ Occurrences(gene_symbol, Tokens(gene_sentence)) = {}) =>
        /\ Tokens(result[1].knockout_gene_sentence) = Tokens(gene_sentence)
        /\ SingleSpaced(result[1].knockout_gene_sentence)
        /\ result[1].warning # None

\* gene_symbol is no token but is part of one, and there are several tokens
C5_Witness ==
    /\ result # None
    /\ Occurrences(gene_symbol, Tokens(gene_sentence)) = {}
    /\ Len(gene_symbol) > 0
    /\ Contains(gene_sentence, gene_symbol)
    /\ Len(Tokens(gene_sentence)) >= 2

\* C6: when gene_symbol is not a token of a non-empty sentence the call still
\* issues the first request, issues the second once the first has succeeded,
\* returns a result with both ages, the delta and the warning when both
\* succeed, and fails only when an inference call fails.
C6_NotFoundIsNotAnError ==
    (/\ pc # "idle"
     /\ Len(Tokens(gene_sentence)) > 0
     /\ Occurrences(gene_symbol, Tokens(gene_sentence)) = {}) =>
        /\ Len(requests) >= 1
        /\ (Len(responses) >= 1 /\ Succeeds(responses[1])) => Len(requests) = 2
        /\ (Len(responses) = 2 /\ Succeeds(responses[1]) /\ Succeeds(responses[2])) =>
              /\ pc = "returned"
              /\ result # None
              /\ result[1].warning # None
              /\ result[1].delta_age
                   = result[1].age_prediction_with_knockout - result[1].age_prediction
        /\ pc = "failed" =>
              /\ Len(responses) >= 1
              /\ ~Succeeds(responses[Len(responses)])

\* a result for a gene that is in no token of the sentence
C6_Witness ==
    /\ pc = "returned"
    /\ result # None
    /\ Len(requests) = 2
    /\ result[1].warning # None
    /\ ~Contains(gene_sentence, gene_symbol)

\* C7: a call whose sentence has no token (empty or whitespace only) fails
\* with ValueError("Gene sentence is empty"), sends no request and returns no
\* result.
C7_EmptySentenceRejected ==
    (pc # "idle" /\ \A i \in 1..Len(gene_sentence) : gene_sentence[i] \in Whitespace) =>
        /\ pc = "failed"
        /\ error = EmptySentenceError
        /\ requests = <<>>
        /\ responses = <<>>
        /\ result = None

\* a whitespace-only sentence was rejected
C7_Witness ==
    /\ pc = "failed"
    /\ Len(gene_sentence) > 1
    /\ \A i \in 1..Len(gene_sentence) : gene_sentence[i] \in Whitespace

\* C8: when the first inference call fails (transport, status, malformed body
\* or no number in the text) the call has failed with that error and the
\* second request was never sent.
C8_FirstFailureAbortsSecondCall ==
    (Len(responses) >= 1 /\ ~Succeeds(responses[1])) =>
        /\ pc = "failed"
        /\ error # None
        /\ error[1].type = (IF responses[1].kind = "ok" THEN "ValueError"
                            ELSE responses[1].kind)
        /\ Len(requests) = 1
        /\ Len(responses) = 1
        /\ result = None

\* the first answer was a text without a number
C8_Witness ==
    /\ pc = "failed"
    /\ Len(responses) = 1
    /\ responses[1].kind = "ok"
    /\ Len(responses[1].text) > 0
    /\ Len(requests) = 1

\* C9: a KnockoutResult is returned exactly when both inference calls
\* succeeded; when the second fails after the first succeeded the call fails
\* and no result is returned.
C9_ResultIffBothSucceed ==
    /\ result # None <=>
          (Len(responses) = 2 /\ Succeeds(responses[1]) /\ Succeeds(responses[2]))
    /\ (Len(responses) = 2 /\ Succeeds(responses[1]) /\ ~Succeeds(responses[2])) =>
          /\ pc = "failed"
          /\ error # None
          /\ result = None

\* the second answer was a text without a number, after a first age was parsed
C9_Witness ==
    /\ pc = "failed"
    /\ Len(responses) = 2
    /\ age_original # None
    /\ responses[2].kind = "ok"
    /\ result = None

\* C10: a call sends at most two requests, each only after every earlier one
\* was answered successfully (so none is retried); a returned call has sent
\* exactly two, the unmodified prompt and then the prompt with the gene
\* removed.
C10_AtMostTwoRequestsInOrder ==
    /\ Len(requests) <= 2
    /\ Len(responses) <= Len(requests)
    /\ Len(requests) <= Len(responses) + 1
    /\ \A i \in 1..Len(responses) : ~Succeeds(responses[i]) => Len(requests) = i
    /\ Len(requests) = 2 => age_original = parse_age(strip(responses[1].text))
    /\ Len(requests) >= 1 =>
          Contains(requests[1], <<"\n">> \o SENTENCE_LABEL \o gene_sentence \o <<"\n">>)
    /\ Len(requests) = 2 =>
          requests[2] = (IF Len(gene_symbol) > 0
                         THEN remove_gene(requests[1], gene_symbol)
                         ELSE requests[1])
    /\ result # None => Len(requests) = 2

\* a returned call whose two prompts differ
C10_Witness ==
    /\ result # None
    /\ Len(requests) = 2
    /\ requests[1] # requests[2]

\* ------------------------------------------------- claims on the prompt builder

\* the lines of a text: the pieces between its newlines, in order
Lines(s) ==
    LET seps == {i \in 1..Len(s) : s[i] = "\n"}
        sep(k) == IF k = 0 THEN 0
                  ELSE IF k > Cardinality(seps) THEN Len(s) + 1
                  ELSE CHOOSE i \in seps : Cardinality({j \in seps : j <= i}) = k
    IN  [k \in 1..(Cardinality(seps) + 1) |-> SubSeq(s, sep(k - 1) + 1, sep(k) - 1)]

StartsWith(s, prefix) ==
    Len(s) >= Len(prefix) /\ SubSeq(s, 1, Len(prefix)) = prefix

MetadataLabels == <<SEX_LABEL, SMOKING_LABEL, TISSUE_LABEL, CELL_TYPE_LABEL>>

\* the text each metadata field would show on its line
MetadataTexts(md) ==
    <<IF md.sex = None THEN <<>> ELSE md.sex[1],
      IF md.smoking_status = None THEN <<>> ELSE intToText(md.smoking_status[1]),
      IF md.tissue = None THEN <<>> ELSE md.tissue[1],
      IF md.cell_type = None THEN <<>> ELSE md.cell_type[1]>>

\* the prompt is the header, a blank line, one line per field f with
\* present[f] and no line for the others, in the order Sex, Smoking status,
\* Tissue, Cell type, then the sentence line and the two instruction lines
PromptLayout(prompt, sentence, md, present) ==
    LET L == Lines(prompt)
        n == Len(L)
        at(f) == {i \in 3..(n - 3) : StartsWith(L[i], MetadataLabels[f])}
    IN  /\ n >= 5
        /\ L[1] \o <<"\n">> = HEADER
        /\ L[2] = <<>>
        /\ L[n - 2] = SENTENCE_LABEL \o sentence
        /\ L[n - 1] = INSTRUCTION_1
        /\ L[n] = INSTRUCTION_2
        /\ n - 5 = Cardinality({f \in 1..4 : present[f]})
        /\ \A f \in 1..4 :
              /\ present[f] <=> at(f) # {}
              /\ \A i \in at(f) : L[i] = MetadataLabels[f] \o MetadataTexts(md)[f]
              /\ \A i, j \in at(f) : i = j
        /\ \A f, g \in 1..4 : \A i \in at(f), j \in at(g) : f < g => i < j

\* a field was passed by the caller
Provided(md) ==
    <<md.sex # None, md.smoking_status # None, md.tissue # None, md.cell_type # None>>

\* a field was passed and, for the three texts, is not the empty text
ProvidedNonEmpty(md) ==
    <<md.sex # None /\ md.sex # Some(<<>>),
      md.smoking_status # None,
      md.tissue # None /\ md.tissue # Some(<<>>),
      md.cell_type # None /\ md.cell_type # Some(<<>>)>>

\* a prompt built by predict_age_with_metadata has been posted
MetadataPromptPosted ==
    /\ call # None
    /\ call[1].tool = "predict_age_with_metadata"
    /\ Len(requests) >= 1

\* C11 as stated: the prompt of predict_age_with_metadata, and the unmodified
\* prompt of the knockout path for the same inputs, has the line of a
\* metadata field exactly when the field was provided, in the fixed order
\* between the header and the sentence line.
C11_LineIffProvided ==
    MetadataPromptPosted =>
        /\ PromptLayout(requests[1], gene_sentence, metadata, Provided(metadata))
        /\ PromptLayout(build_prompt(gene_sentence, metadata.sex,
                                     metadata.smoking_status, metadata.tissue,
                                     metadata.cell_type, None),
                        gene_sentence, metadata, Provided(metadata))

\* C11, amended: the line of Sex, Tissue or Cell type is present exactly when
\* the field was provided with a non-empty text, the line of Smoking status
\* exactly when it was provided (0 included); the order and the place of the
\* lines are as stated.
C11_LineIffProvidedNonEmpty ==
    MetadataPromptPosted =>
        /\ PromptLayout(requests[1], gene_sentence, metadata,
                        ProvidedNonEmpty(metadata))
        /\ PromptLayout(build_prompt(gene_sentence, metadata.sex,
                                     metadata.smoking_status, metadata.tissue,
                                     metadata.cell_type, None),
                        gene_sentence, metadata, ProvidedNonEmpty(metadata))

\* a prompt was built with some fields set, one empty and one left out
C11_Witness ==
    /\ MetadataPromptPosted
    /\ metadata.sex = Some(<<"F">>)
    /\ metadata.smoking_status = Some(0)
    /\ metadata.tissue = Some(<<>>)
    /\ metadata.cell_type = None
    /\ Len(gene_sentence) > 0

\* ------------------------------------------------ claims on the text surgery

\* every literal the prompt builder can put into a prompt
FixedPromptTexts ==
    {HEADER, SEX_LABEL, SMOKING_LABEL, TISSUE_LABEL, CELL_TYPE_LABEL,
     SENTENCE_LABEL, INSTRUCTION_1, INSTRUCTION_2}

\* the gene is a token of the sentence and occurs nowhere else in the
\* prompt: not inside another token, a metadata value or a fixed word
OccursOnlyAsToken(g, sentence, md) ==
    LET toks == Tokens(sentence)
    IN  /\ Occurrences(g, toks) # {}
        /\ \A k \in 1..Len(toks) : toks[k] # g => ~Contains(toks[k], g)
        /\ \A f \in 1..4 : ~Contains(MetadataTexts(md)[f], g)
        /\ \A t \in FixedPromptTexts : ~Contains(t, g)

\* the tokens of the sentence other than g, each preceded by a space
RECURSIVE SpacedRemainder(_, _)
SpacedRemainder(g, toks) ==
    IF toks = <<>> THEN <<>>
    ELSE (IF Head(toks) = g THEN <<>> ELSE <<" ">> \o Head(toks))
         \o SpacedRemainder(g, Tail(toks))

NoDoubleWhitespace(s) ==
    \A i \in 1..(Len(s) - 1) : ~(s[i] \in Whitespace /\ s[i + 1] \in Whitespace)

\* C12: when the sentence is single-spaced and the gene occurs in it as a
\* whole token (at the start, in the middle, at the end, once or several
\* times) and nowhere else in the prompt, the knockout prompt carries, right
\* after 'Aging related cell sentence:', exactly the remaining tokens in
\* order, separated by single spaces, and has no two consecutive whitespace
\* characters.
C12_SurgeryLeavesRemainingTokens ==
    (/\ Len(requests) = 2
     /\ SingleSpaced(gene_sentence)
     /\ OccursOnlyAsToken(gene_symbol, gene_sentence, metadata))
    => /\ Contains(requests[2],
                   SubSeq(SENTENCE_LABEL, 1, Len(SENTENCE_LABEL) - 1)
                   \o SpacedRemainder(gene_symbol, Tokens(gene_sentence))
                   \o <<" ">> \o INSTRUCTION_1)
       /\ NoDoubleWhitespace(requests[2])

\* the gene was removed from the start and from the end of a sentence
C12_Witness ==
    /\ Len(requests) = 2
    /\ gene_symbol = <<"B">>
    /\ gene_sentence = <<"B", " ", "A", " ", "B">>
    /\ OccursOnlyAsToken(gene_symbol, gene_sentence, metadata)

\* ---------------------------------------------------- claims on the age parser

RECURSIVE SumOver(_, _)
SumOver(f, S) ==
    IF S = {} THEN 0
    ELSE LET k == CHOOSE x \in S : TRUE IN f[k] + SumOver(f, S \ {k})

\* the first decimal-number token of a text that has a digit: it starts at
\* the first digit, takes the digits that follow, and then a decimal point
\* with the digits after it when the point comes right after
FirstNumberValue(raw) ==
    LET lo == CHOOSE i \in 1..Len(raw) :
                  raw[i] \in Digits /\ \A j \in 1..(i - 1) : raw[j] \notin Digits
        run(from, to) == \A k \in from..to : k <= Len(raw) /\ raw[k] \in Digits
        ie == CHOOSE e \in lo..Len(raw) : run(lo, e) /\ ~run(lo, e + 1)
        fe == IF ie < Len(raw) /\ raw[ie + 1] = "."
              THEN CHOOSE e \in (ie + 1)..Len(raw) : run(ie + 2, e) /\ ~run(ie + 2, e + 1)
              ELSE ie
        whole == [k \in lo..ie |-> DigitValue[raw[k]] * pow10(ie - k) * AgeScale]
        frac == [k \in (ie + 2)..fe |-> (DigitValue[raw[k]] * AgeScale) \div pow10(k - ie - 1)]
    IN  SumOver(whole, lo..ie) + SumOver(frac, (ie + 2)..fe)

\* the text of the first answer of the endpoint
FirstAnswered == Len(responses) >= 1 /\ responses[1].kind = "ok"

\* C13: on the knockout path the age parsed from a response text is the value
\* of its first decimal-number token, read left to right ('Age: 42.5 years'
\* gives 42.5, '7' gives 7.0); a text without a digit makes the parse fail
\* with an error and gives no age.
C13_FirstNumberIsTheAge ==
    FirstAnswered =>
        LET raw == responses[1].text
        IN  /\ HasDigit(raw) =>
                  /\ age_original = Some(FirstNumberValue(raw))
                  /\ ~(pc = "failed" /\ Len(responses) = 1)
            /\ ~HasDigit(raw) =>
                  /\ age_original = None
                  /\ pc = "failed"
                  /\ error # None /\ error[1].type = "ValueError"
                  /\ result = None
            /\ raw = <<"A","g","e",":"," ","4","2",".","5"," ","y","e","a","r","s">>
                  => age_original = Some(42 * AgeScale + AgeScale \div 2)
            /\ raw = <<"7">> => age_original = Some(7 * AgeScale)

\* a text with a sign, a fraction and a second number was parsed
C13_Witness ==
    /\ FirstAnswered
    /\ responses[1].text = <<"-", "4", ".", "2">>
    /\ age_original = Some(4 * AgeScale + (2 * AgeScale) \div 10)

\* ------------------------------------------------ claims on the service tools

\* a text without its leading and trailing whitespace
Trimmed(t) ==
    LET inked == {i \in 1..Len(t) : t[i] \notin Whitespace}
    IN  IF inked = {} THEN <<>>
        ELSE SubSeq(t, CHOOSE i \in inked : \A j \in inked : i <= j,
                       CHOOSE i \in inked : \A j \in inked : j <= i)

\* a standalone prediction was answered with a text
StandaloneAnswered ==
    /\ call # None
    /\ call[1].tool \in {"predict_age", "predict_age_with_metadata"}
    /\ Len(responses) = 1
    /\ responses[1].kind = "ok"

\* C14: on the standalone path (predict_age, predict_age_with_metadata) an
\* answer that holds no number does not fail the call: it returns an
\* AgePredictionResult whose predicted_age is absent, whose raw_response is
\* the trimmed text, whose prompt_used is the prompt that was sent and whose
\* model is the configured model; the knockout path fails on the same answer.
C14_NoNumberIsNotAFailure ==
    (StandaloneAnswered /\ ~HasDigit(responses[1].text)) =>
        /\ pc = "returned"
        /\ error = None
        /\ result # None
        /\ result[1].predicted_age = None
        /\ result[1].raw_response = Trimmed(responses[1].text)
        /\ result[1].prompt_used = requests[1]
        /\ result[1].model = DEFAULT_MODEL
        /\ prediction_of(responses[1]).error # None

\* both tools returned for an answer of whitespace and a letter
C14_Witness ==
    /\ StandaloneAnswered
    /\ responses[1].text = <<" ", "y", " ">>
    /\ call[1].tool = "predict_age_with_metadata"
    /\ metadata.sex = Some(<<"F">>)
    /\ pc = "returned"

\* the service's knockout tool was called without gene_symbol, on a sentence
\* that has a first gene
KnockoutToolWithoutSymbol ==
    /\ call # None
    /\ call[1].tool = "insilico_knockout_tool"
    /\ call[1].gene_symbol = None
    /\ Len(Tokens(gene_sentence)) > 0

\* C15: insilico_knockout_tool called with a gene sentence (and optional
\* metadata) but without gene_symbol knocks out the first gene of the
\* sentence: the call reaches the inference endpoint with the first token as
\* the gene, and its result has gene_knocked_out equal to the first token,
\* original_gene_sentence equal to the input and knockout_gene_sentence equal
\* to the remaining tokens.
C15_ToolDefaultsToFirstGene ==
    KnockoutToolWithoutSymbol =>
        LET toks == Tokens(gene_sentence)
        IN  /\ ~(pc = "failed" /\ requests = <<>>)
            /\ gene_symbol = toks[1]
            /\ result # None =>
                  /\ result[1].gene_knocked_out = toks[1]
                  /\ result[1].original_gene_sentence = gene_sentence
                  /\ Tokens(result[1].knockout_gene_sentence)
                         = SelectSeq(toks, LAMBDA t : t # toks[1])

\* ------------------------------------------------ claims on the command line

\* a value that survives a line of the prompt: not empty, on one line, no
\* whitespace at either end
RoundTripText(t) ==
    /\ t # <<>>
    /\ \A i \in 1..Len(t) : t[i] # "\n"
    /\ Trimmed(t) = t

\* the sentence and every provided metadata text are round-trip texts
RoundTripInput(b) ==
    /\ RoundTripText(b.gene_sentence)
    /\ \A f \in {1, 3, 4} : Provided(b.metadata)[f] => RoundTripText(MetadataTexts(b.metadata)[f])

\* a command that reads a payload file was run
PayloadCommandRun ==
    call # None /\ call[1].tool \in {"knockout_from_payload", "ko"}

\* C16: parsing a prompt the Prompt Builder built from a gene sentence and
\* metadata whose texts are non-empty, without newline and without leading or
\* trailing whitespace recovers exactly the same five values, absent fields
\* as absent: these are the values the command passes to the engine.
C16_PayloadRoundTrip ==
    PayloadCommandRun =>
        \A b \in BuiltPayloads :
            (b.prompt = call[1].prompt /\ RoundTripInput(b)) =>
                /\ pc # "failed" \/ Len(requests) >= 1
                /\ gene_sentence = b.gene_sentence
                /\ metadata = b.metadata

\* a prompt with every field, colons inside the values, was parsed back
C16_Witness ==
    /\ PayloadCommandRun
    /\ pc = "await_original"
    /\ gene_sentence = <<"B", " ", "A", " ", "B">>
    /\ metadata = [sex |-> Some(<<"a", ":", "b">>), smoking_status |-> Some(0),
                   tissue |-> Some(<<"S","e","x",":"," ","M">>),
                   cell_type |-> Some(<<"B", " ", "T">>)]
    /\ \E b \in BuiltPayloads :
          b.prompt = call[1].prompt /\ b.metadata = metadata /\ RoundTripInput(b)

\* the sentences the payload's prompt shows on its sentence lines
SentencesShown(prompt) ==
    LET L == Lines(prompt)
        label == SubSeq(SENTENCE_LABEL, 1, Len(SENTENCE_LABEL) - 1)
    IN  {Trimmed(SubSeq(Trimmed(L[i]), Len(label) + 1, Len(Trimmed(L[i])))) :
            i \in {j \in 1..Len(L) : StartsWith(Trimmed(L[j]), label)}}

\* C17: knockout-from-payload without --gene-symbol knocks out the first
\* token of the sentence parsed from the payload; a symbol given with the
\* option is used unchanged; when the payload has no 'Aging related cell
\* sentence:' line with a non-empty sentence the command fails before any
\* inference request.
C17_PayloadGeneDefault ==
    (call # None /\ call[1].tool = "knockout_from_payload") =>
        LET shown == SentencesShown(call[1].prompt) \ {<<>>}
        IN  /\ shown = {} =>
                  /\ pc = "failed"
                  /\ requests = <<>>
                  /\ error # None
                  /\ result = None
            /\ (Len(requests) >= 1 /\ call[1].gene_symbol = None) =>
                  \E sentence \in shown :
                      /\ gene_sentence = sentence
                      /\ gene_symbol = Tokens(sentence)[1]
            /\ (Len(requests) >= 1 /\ call[1].gene_symbol # None) =>
                  gene_symbol = call[1].gene_symbol[1]

\* the command defaulted to the first gene of an indented sentence line
C17_Witness ==
    /\ call # None
    /\ call[1].tool = "knockout_from_payload"
    /\ call[1].gene_symbol = None
    /\ Len(requests) = 2
    /\ gene_sentence = <<"B", " ", "A">>
    /\ gene_symbol = <<"B">>

\* ---------------------------------------------- claims on the dataset filter

\* the first whitespace-delimited token of a row is in the reference set
FirstTokenIn(row, symbols) ==
    Len(Tokens(row)) > 0 /\ Tokens(row)[1] \in symbols

\* C18: the output of the Dataset Filter holds exactly the rows whose first
\* whitespace-delimited token is a member of the reference set, unchanged and
\* in input order; a row whose first token is not in the set, an empty
\* sentence included, is never kept.
C18_FilterKeepsFirstTokenMembers ==
    filtered_df # None =>
        filtered_df[1] = SelectSeq(df[1], LAMBDA row : FirstTokenIn(row, gene_symbols))

\* ------------------------------------- claims on the surgery's side effects

\* C19: when gene_symbol does not occur anywhere in the text of the
\* assembled prompt, the prompt of the knockout (second) call is identical,
\* character for character, to the prompt of the original (first) call.
C19_AbsentGeneLeavesPromptIdentical ==
    (Len(requests) = 2 /\ ~Contains(requests[1], gene_symbol))
        => requests[2] = requests[1]

\* C20: the surgery removes every whole-token occurrence of the gene and
\* nothing else: the tokens of the knockout prompt are the tokens of the
\* original prompt other than the gene, in order, each intact and none merged
\* with a neighbour (tokens that contain the gene as a prefix, suffix or infix
\* included).
C20_NoPartialRemoval ==
    (Len(requests) = 2 /\ gene_symbol # <<>>)
        => Tokens(requests[2])
               = SelectSeq(Tokens(requests[1]), LAMBDA t : t # gene_symbol)

\* ------------------------------------------- claims on the rewrite's steps

\* the first place where old occurs in s, 0 when it occurs nowhere
FirstOccurrence(s, old) ==
    LET at == {i \in 1..(Len(s) - Len(old) + 1) : occurs_at(s, old, i)}
    IN  IF at = {} THEN 0 ELSE CHOOSE i \in at : \A j \in at : i <= j

\* s with every occurrence of old, found left to right, replaced by new
RECURSIVE EveryReplaced(_, _, _)
EveryReplaced(s, old, new) ==
    LET i == FirstOccurrence(s, old)
    IN  IF i = 0 THEN s
        ELSE SubSeq(s, 1, i - 1) \o new
             \o EveryReplaced(SubSeq(s, i + Len(old), Len(s)), old, new)

EndsWith(s, suffix) ==
    Len(s) >= Len(suffix) /\ SubSeq(s, Len(s) - Len(suffix) + 1, Len(s)) = suffix

SuffixRemoved(s, suffix) ==
    IF EndsWith(s, suffix) THEN SubSeq(s, 1, Len(s) - Len(suffix)) ELSE s

PrefixRemoved(s, prefix) ==
    IF StartsWith(s, prefix) THEN SubSeq(s, Len(prefix) + 1, Len(s)) ELSE s

\* s with every run of whitespace replaced by one space
RECURSIVE RunsCollapsed(_)
RunsCollapsed(s) ==
    LET blank == {i \in 1..Len(s) : s[i] \in Whitespace}
    IN  IF blank = {} THEN s
        ELSE LET lo == CHOOSE i \in blank : \A j \in blank : i <= j
                 inked == {i \in lo..Len(s) : s[i] \notin Whitespace}
                 hi == IF inked = {} THEN Len(s) + 1
                       ELSE CHOOSE i \in inked : \A j \in inked : i <= j
             IN  SubSeq(s, 1, lo - 1) \o <<" ">> \o RunsCollapsed(SubSeq(s, hi, Len(s)))

\* the rewrite with its second step at the end of the text only and its
\* third step at the start of the text only
AnchoredRewrite(prompt, g) ==
    RunsCollapsed(
        PrefixRemoved(
            SuffixRemoved(EveryReplaced(prompt, <<" ">> \o g \o <<" ">>, <<" ">>),
                          <<" ">> \o g),
            g \o <<" ">>))

\* the rewrite with every step applied wherever its pattern occurs
UnanchoredRewrite(prompt, g) ==
    RunsCollapsed(
        EveryReplaced(
            EveryReplaced(EveryReplaced(prompt, <<" ">> \o g \o <<" ">>, <<" ">>),
                          <<" ">> \o g, <<>>),
            g \o <<" ">>, <<>>))

\* the knockout prompt was posted for a gene symbol that is not empty
SurgeryRan == Len(requests) = 2 /\ gene_symbol # <<>>

\* C21 as stated: the knockout prompt is the assembled prompt with every
\* ' <gene> ' replaced by ' ', then ' <gene>' removed only at the end of the
\* text, then '<gene> ' removed only at the start of the text, then every run
\* of whitespace collapsed to one space.
C21_AnchoredRewrite ==
    SurgeryRan => requests[2] = AnchoredRewrite(requests[1], gene_symbol)

\* C21, amended: the knockout prompt is the assembled prompt with every
\* ' <gene> ' replaced by ' ', then every ' <gene>' removed wherever it
\* occurs, then every '<gene> ' removed wherever it occurs, then every run of
\* whitespace collapsed to one space.
C21_UnanchoredRewrite ==
    SurgeryRan => requests[2] = UnanchoredRewrite(requests[1], gene_symbol)

\* a gene at the end of the sentence, which is not the end of the text, was
\* removed
C21_Witness ==
    /\ SurgeryRan
    /\ gene_symbol = <<"B">>
    /\ gene_sentence = <<"A", " ", "B">>
    /\ requests[2] # AnchoredRewrite(requests[1], gene_symbol)

\* ------------------------------------ claims on the reach of the removal

SeqRange(q) == {q[i] : i \in DOMAIN q}

\* the metadata texts (sex, tissue, cell type) that have g as a word
MetadataWithWord(g, md) ==
    {f \in {1, 3, 4} : Provided(md)[f] /\ g \in SeqRange(Tokens(MetadataTexts(md)[f]))}

\* the header, sentence label and instruction lines that have g as a word
FixedTextWithWord(g) ==
    {t \in {HEADER, SENTENCE_LABEL, INSTRUCTION_1, INSTRUCTION_2} :
        g \in SeqRange(Tokens(t))}

HasLineOf(prompt, label) ==
    \E i \in DOMAIN Lines(prompt) : StartsWith(Lines(prompt)[i], label)

\* the two prompts the rule is about: the one predict_age_with_metadata
\* posted and the one the knockout path builds from the same inputs
RulePrompts ==
    {requests[1],
     build_prompt(gene_sentence, metadata.sex, metadata.smoking_status,
                  metadata.tissue, metadata.cell_type, None)}

PLACEHOLDER_NONE == <<"N", "o", "n", "e">>

\* C23 as stated: the 'Smoking status:' line is there whenever smoking_status
\* is not absent, 0 included; each of the Sex, Tissue and Cell type lines is
\* there if and only if its value is not absent.
C23_PresentIffNotAbsent ==
    MetadataPromptPosted =>
        \A prompt \in RulePrompts :
            /\ HasLineOf(prompt, SMOKING_LABEL) <=> metadata.smoking_status # None
            /\ HasLineOf(prompt, SEX_LABEL) <=> metadata.sex # None
            /\ HasLineOf(prompt, TISSUE_LABEL) <=> metadata.tissue # None
            /\ HasLineOf(prompt, CELL_TYPE_LABEL) <=> metadata.cell_type # None

\* C23, amended: the 'Smoking status:' line is there whenever smoking_status
\* is not absent, 0 included; each of the Sex, Tissue and Cell type lines is
\* there if and only if its value is neither absent nor the empty text; an
\* omitted field leaves no placeholder in the prompt.
C23_PresentIffTruthy ==
    MetadataPromptPosted =>
        \A prompt \in RulePrompts :
            /\ HasLineOf(prompt, SMOKING_LABEL) <=> metadata.smoking_status # None
            /\ metadata.smoking_status = Some(0)
                  => HasLineOf(prompt, SMOKING_LABEL \o <<"0">>)
            /\ HasLineOf(prompt, SEX_LABEL)
                  <=> (metadata.sex # None /\ Len(metadata.sex[1]) > 0)
            /\ HasLineOf(prompt, TISSUE_LABEL)
                  <=> (metadata.tissue # None /\ Len(metadata.tissue[1]) > 0)
            /\ HasLineOf(prompt, CELL_TYPE_LABEL)
                  <=> (metadata.cell_type # None /\ Len(metadata.cell_type[1]) > 0)
            /\ ~Contains(prompt, PLACEHOLDER_NONE)

\* smoking status 0 with an empty sex and no tissue
C23_Witness ==
    /\ MetadataPromptPosted
    /\ metadata.smoking_status = Some(0)
    /\ metadata.sex = Some(<<>>)
    /\ metadata.tissue = None
    /\ metadata.cell_type = Some(<<"B", " ", "T">>)

\* ------------------------------------ claims on the empty gene sentence

\* a call of one of the three prediction operations
PredictionToolCalled ==
    /\ call # None
    /\ call[1].tool \in {"predict_age", "predict_age_with_metadata",
                         "insilico_knockout_tool"}
    /\ call[1].tool = "insilico_knockout_tool" => call[1].gene_symbol # None

\* C24: in predict_age, predict_age_with_metadata and insilico_knockout no
\* request is ever sent for an empty gene sentence: a sentence of zero tokens
\* is rejected before any request, and every prompt sent carries at least one
\* gene.
C24_NoRequestForEmptySentence ==
    PredictionToolCalled =>
        /\ Len(Tokens(gene_sentence)) = 0 =>
              (Len(requests) = 0 /\ pc = "failed" /\ error = EmptySentenceError)
        /\ \A i \in DOMAIN requests :
              \E t \in SeqRange(Tokens(gene_sentence)) : Contains(requests[i], t)

\* ------------------------------------ claims on the tokens of the sentence

\* C25 as stated: the sentence is cut at single spaces only, so two symbols
\* with only a tab or a newline between them are one token and a gene_symbol
\* equal to one of them is reported as not found.
C25_SingleSpaceTokens ==
    result # None =>
        (result[1].warning # None
            <=> gene_symbol \notin SeqRange(str_split(gene_sentence, " ")))

\* C25, amended: the sentence is cut at every run of whitespace of any kind,
\* so two symbols with only a tab or a newline between them are two tokens: a
\* gene_symbol equal to one of them is found (no warning) and is missing from
\* the returned knockout sentence.
C25_WhitespaceRunTokens ==
    result # None =>
        LET toks == Tokens(gene_sentence)
            kept == Tokens(result[1].knockout_gene_sentence)
        IN  /\ result[1].warning = None <=> gene_symbol \in SeqRange(toks)
            /\ Len(kept) = Len(toks) - Cardinality(Occurrences(gene_symbol, toks))
            /\ gene_symbol \notin SeqRange(kept)

\* 'B' knocked out of a sentence whose two symbols are separated by a tab
C25_Witness ==
    /\ result # None
    /\ gene_sentence = <<"A", "\t", "B">>
    /\ gene_symbol = <<"B">>
    /\ result[1].warning = None
    /\ result[1].knockout_gene_sentence = <<"A">>

\* a knockout returned for a gene symbol that is not a token of the sentence
AbsentGeneReturned ==
    /\ result # None
    /\ gene_symbol \notin SeqRange(Tokens(gene_sentence))

\* C26 as stated: when gene_symbol is not a token of the sentence, the
\* returned knockout_gene_sentence is character for character the
\* original_gene_sentence.
C26_AbsentGeneSentenceIdentical ==
    AbsentGeneReturned =>
        result[1].knockout_gene_sentence = result[1].original_gene_sentence

\* C26, amended: when gene_symbol is not a token of the sentence, the returned
\* knockout_gene_sentence holds the tokens of original_gene_sentence, all of
\* them and in order, joined by single spaces; it is character for character
\* the original exactly when the original is written that way.
C26_AbsentGeneSentenceRejoined ==
    AbsentGeneReturned =>
        LET r == result[1]
        IN  /\ r.original_gene_sentence = gene_sentence
            /\ Tokens(r.knockout_gene_sentence) = Tokens(gene_sentence)
            /\ SingleSpaced(r.knockout_gene_sentence)
            /\ r.knockout_gene_sentence = gene_sentence <=> SingleSpaced(gene_sentence)

\* an absent gene and a sentence with a leading space
C26_Witness ==
    /\ AbsentGeneReturned
    /\ gene_symbol = <<"T">>
    /\ gene_sentence = <<" ", "B", " ", "A">>
    /\ result[1].knockout_gene_sentence = <<"B", " ", "A">>

\* ------------------------------------ claims on the sign of the ages

MINUS_SEVEN == <<"-", "7">>

\* a result was returned by the named tool
ReturnedBy(tool) ==
    /\ call # None
    /\ call[1].tool = tool
    /\ result # None

\* C27: every parsed age is non-negative, the minus sign in front of a number
\* being skipped ('-7' yields 7): both ages of a KnockoutResult are at least
\* 0, and predicted_age of an AgePredictionResult is absent or at least 0.
C27_AgesNonNegative ==
    /\ ReturnedBy("insilico_knockout_tool") =>
          /\ result[1].age_prediction >= 0
          /\ result[1].age_prediction_with_knockout >= 0
          /\ responses[1].text = MINUS_SEVEN => result[1].age_prediction = 7 * AgeScale
          /\ responses[2].text = MINUS_SEVEN =>
                result[1].age_prediction_with_knockout = 7 * AgeScale
    /\ \A tool \in {"predict_age", "predict_age_with_metadata"} :
          ReturnedBy(tool) =>
              /\ result[1].predicted_age = None \/ result[1].predicted_age[1] >= 0
              /\ responses[1].text = MINUS_SEVEN =>
                    result[1].predicted_age = Some(7 * AgeScale)

\* a knockout whose first answer was '-7'
C27_Witness ==
    /\ ReturnedBy("insilico_knockout_tool")
    /\ responses[1].text = MINUS_SEVEN
    /\ result[1].age_prediction = 7 * AgeScale
    /\ result[1].delta_age >= 0

\* ------------------------------------ claims on the state of the service

\* the prompt a standalone tool builds from its own arguments
StandalonePromptOf(tool) ==
    IF tool = "predict_age"
    THEN predict_age_prompt(gene_sentence)
    ELSE predict_age_with_metadata_prompt(gene_sentence, metadata)

\* C28: the service keeps no mutable state between calls: whatever calls of
\* predict_age, predict_age_with_metadata and insilico_knockout_tool were
\* made, vllm_base_url and model are the values of the construction, nothing
\* of an ended call is left when the next one starts, and what a call sends
\* and returns is fixed by its own arguments, the configuration and the
\* answers it received.
C28_CallsShareNoState ==
    /\ vllm_base_url = VLLM_BASE_URL
    /\ model = DEFAULT_MODEL
    /\ pc = "idle" =>
          /\ requests = <<>> /\ responses = <<>>
          /\ result = None /\ error = None /\ age_original = None
    /\ \A tool \in {"predict_age", "predict_age_with_metadata"} :
          (call # None /\ call[1].tool = tool) =>
              /\ requests = <<StandalonePromptOf(tool)>>
              /\ Len(responses) = 1 =>
                    LET answer == standalone_answer(responses[1], StandalonePromptOf(tool),
                                                    DEFAULT_MODEL)
                    IN  result = answer.result /\ error = answer.error
    /\ (call # None /\ call[1].tool = "insilico_knockout_tool"
            /\ call[1].gene_symbol # None) =>
          /\ gene_symbol = call[1].gene_symbol[1]
          /\ Len(requests) >= 1 =>
                requests[1] = original_request(gene_symbol, gene_sentence, metadata)
          /\ Len(requests) = 2 =>
                requests[2] = knockout_request(gene_symbol, gene_sentence, metadata)
          /\ Len(requests) <= 2
          /\ result # None =>
                result[1] = KnockoutResult(gene_symbol, gene_sentence,
                                           prediction_of(responses[1]).age[1],
                                           prediction_of(responses[2]).age[1],
                                           DEFAULT_MODEL)
          /\ (Len(responses) >= 1 /\ error # None) =>
                error = prediction_of(responses[Len(responses)]).error

\* a knockout returned by a service that still has its construction values
C28_Witness ==
    /\ ReturnedBy("insilico_knockout_tool")
    /\ result[1].model = DEFAULT_MODEL
    /\ vllm_base_url = VLLM_BASE_URL
    /\ Len(requests) = 2
    /\ result[1].delta_age > 0

\* ------------------------------------ claims on the three prompt builders

NoMetadata == [sex |-> None, smoking_status |-> None, tissue |-> None, cell_type |-> None]

\* the first request of the call of the named tool is there
PostedBy(tool) ==
    /\ call # None
    /\ call[1].tool = tool
    /\ Len(requests) >= 1

\* C29: the three prompt builders agree character for character: for the
\* same sentence and metadata the unmodified prompt of the knockout path is
\* the prompt of predict_age_with_metadata, and with all metadata absent both
\* are the prompt of predict_age.
C29_PromptBuildersAgree ==
    /\ PostedBy("insilico_knockout_tool") =>
          /\ requests[1] = predict_age_with_metadata_prompt(gene_sentence, metadata)
          /\ metadata = NoMetadata => requests[1] = predict_age_prompt(gene_sentence)
    /\ PostedBy("predict_age_with_metadata") =>
          /\ requests[1] = build_prompt(gene_sentence, metadata.sex, metadata.smoking_status,
                                        metadata.tissue, metadata.cell_type, None)
          /\ metadata = NoMetadata => requests[1] = predict_age_prompt(gene_sentence)
    /\ PostedBy("predict_age") =>
          /\ requests[1] = build_prompt(gene_sentence, None, None, None, None, None)
          /\ requests[1] = predict_age_with_metadata_prompt(gene_sentence, NoMetadata)

\* predict_age_with_metadata called without any metadata
C29_Witness ==
    /\ PostedBy("predict_age_with_metadata")
    /\ metadata = NoMetadata
    /\ gene_sentence = <<"A", " ", "B">>
    /\ requests[1] = predict_age_prompt(gene_sentence)

\* ------------------------------------ claims on the empty gene symbol

\* both prompts of a knockout of the empty gene symbol were posted
EmptySymbolPosted == Len(requests) = 2 /\ gene_symbol = <<>>

\* C30: a knockout of the empty gene symbol on a sentence that is not empty
\* sends the same, unmodified prompt twice (nothing substituted, no whitespace
\* collapsed), returns a knockout sentence with every token of the input, and
\* carries the not-found warning.
C30_EmptySymbolLeavesPromptAlone ==
    EmptySymbolPosted =>
        /\ requests[2] = requests[1]
        /\ Contains(requests[2], SENTENCE_LABEL \o gene_sentence \o <<"\n">>)
        /\ Lines(requests[2]) = Lines(requests[1])
        /\ result # None =>
              /\ Tokens(result[1].knockout_gene_sentence) = Tokens(gene_sentence)
              /\ result[1].warning = Some(WARNING_PREFIX \o WARNING_SUFFIX)
              /\ Contains(result[1].warning[1], NOT_FOUND)
              /\ result[1].gene_knocked_out = <<>>

\* the empty symbol on a sentence with two spaces between its genes
C30_Witness ==
    /\ EmptySymbolPosted
    /\ gene_sentence = <<"A", " ", " ", "B">>
    /\ result # None
    /\ result[1].knockout_gene_sentence = <<"A", " ", "B">>

====
